---- MODULE Spec2Model ----
(***************************************************************************)
(* Model of "financial with faheem/Stock.py": the FinancialAdvisorBot      *)
(* object (expense ledger, retirement plan), its six methods, the three    *)
(* external gateways they call (Alpha Vantage inflation, yfinance quotes,  *)
(* OpenAI chat completion) and the module-level construction of the bot    *)
(* that Streamlit executes at the top of every script run.                 *)
(*                                                                         *)
(* Numbers: Python floats are modelled as exact values.  Ledger amounts    *)
(* are naturals, inflation rates are whole percents, and the results of    *)
(* "/" and "**" are exact fractions [num, den] that are never reduced.     *)
(* Rounding of binary floating point is therefore outside the model.       *)
(***************************************************************************)
EXTENDS Integers, Sequences, FiniteSets, TLC

VARIABLES
    expenses,         \* self.expenses: the rows of the DataFrame, in index order
    retirement_plan,  \* self.retirement_plan: five keys, each None or a value
    adds,             \* history: the add_expense calls made on this bot object
    op,               \* name of the last method that ran
    args,             \* the arguments it was called with
    env,              \* what the external services answered during that call
    ret,              \* what it returned, or the exception it raised
    calls,            \* the external requests it made, in order
    notices           \* the st.error notices it emitted, in order

vars == <<expenses, retirement_plan, adds, op, args, env, ret, calls, notices>>

----------------------------------------------------------------------------
(* Bounds and input domains *)

MaxLedger == 3

Dates == {"2024-01-01"}
\* the categories a caller passes, listed in the order pandas sorts group keys
CategoryOrder == <<"Groceries", "Rent">>
Categories == {CategoryOrder[i] : i \in 1..Len(CategoryOrder)}
Amounts == {0, 30}
\* whole-percent inflation rates the Alpha Vantage API may report
Rates == {0, 3, 10}
\* argument tuples of set_retirement_plan:
\* <<current_age, retirement_age, current_savings, monthly_contribution, savings_goal>>
PlanInputs ==
    { <<0, 2, 0, 0, 0>>, <<0, 2, 1000, 100, 5>>, <<1, 2, 1000, 0, 3>>,
      <<2, 2, 0, 100, 3>>, <<2, 0, 1000, 100, 5>> }
InvestmentAmounts == {0, 7, 10}
Years == {1}
Prompts == {"how much should I save?", ""}
Replies == {"save more", ""}

----------------------------------------------------------------------------
(* Python values *)

\* None, and a value that is not None
None == <<>>
Some(v) == <<v>>

\* an exact fraction num/den
Rat(n, d) == [num |-> n, den |-> d]
RatMul(a, b) == Rat(a.num * b.num, a.den * b.den)
RatAdd(a, b) == Rat(a.num * b.den + b.num * a.den, a.den * b.den)
RatDiv(a, b) == Rat(a.num * b.den, a.den * b.num)
RatEq(a, b) == a.num * b.den = b.num * a.den
RatLess(a, b) == a.num * b.den < b.num * a.den

RECURSIVE RatPowNat(_, _)
RatPowNat(a, n) == IF n = 0 THEN Rat(1, 1) ELSE RatMul(a, RatPowNat(a, n - 1))

\* a ** e for an integer exponent e; a negative exponent inverts the base
RatPow(a, e) == IF e >= 0 THEN RatPowNat(a, e) ELSE RatPowNat(Rat(a.den, a.num), 0 - e)

----------------------------------------------------------------------------
(* What the external services may answer *)

NotCalled == [kind |-> "notcalled", value |-> 0]

\* requests.get(...).json(): a 'data' list with the rate, a body without
\* 'data', or an exception from the request or the parsing
InflationResponses ==
    {[kind |-> "rate", value |-> r] : r \in Rates}
        \cup {[kind |-> "nodata", value |-> 0], [kind |-> "exception", value |-> 0]}

\* openai.ChatCompletion.create: a completion with its text, or an exception
AdvisorResponses ==
    {[kind |-> "reply", text |-> t] : t \in Replies} \cup {[kind |-> "error", text |-> ""]}
AdvisorNotCalled == [kind |-> "notcalled", text |-> ""]

\* yf.Ticker(t).info per ticker: "quote" has a truthy currentPrice and every
\* key read; "noprice" has no currentPrice (or None, or 0); "raises" is an
\* exception from the fetch or a KeyError on a missing key
QuoteKinds == {"quote", "noprice", "raises"}

NoEnv == [inflation |-> NotCalled, advisor |-> AdvisorNotCalled, quotes |-> <<>>]

----------------------------------------------------------------------------
(* Outcomes of a method call *)

Returned(v) == [kind |-> "returned", value |-> v]
Raised(e) == [kind |-> "raised", value |-> e]

Outcome(r, c, n) == [ret |-> r, calls |-> c, notices |-> n]

InflationCall == [gateway |-> "InflationGateway", request |-> <<"INFLATION">>]
QuoteCall(ticker) == [gateway |-> "MarketDataGateway", request |-> <<ticker>>]
AdvisorCall(messages) == [gateway |-> "AdvisorGateway", request |-> messages]

----------------------------------------------------------------------------
(* FinancialAdvisorBot *)

\* __init__: an empty DataFrame and a plan whose five keys are None
InitExpenses == <<>>
InitPlan ==
    [current_age |-> None, retirement_age |-> None, current_savings |-> None,
     monthly_contribution |-> None, savings_goal |-> None]

\* get_current_inflation: the float of data['data'][0]['value'], or None with
\* an st.error notice when 'data' is missing or anything raises
get_current_inflation(resp) ==
    IF resp.kind = "rate"
    THEN [value |-> Some(resp.value), calls |-> <<InflationCall>>, notices |-> <<>>]
    ELSE IF resp.kind = "nodata"
    THEN [value |-> None, calls |-> <<InflationCall>>,
          notices |-> <<"Unable to fetch inflation data.">>]
    ELSE [value |-> None, calls |-> <<InflationCall>>,
          notices |-> <<"Error fetching inflation data">>]

\* add_expense: pd.concat([self.expenses, one new row], ignore_index=True)
add_expense(exp, date, category, amount) ==
    Append(exp, [Date |-> date, Category |-> category, Amount |-> amount])

RECURSIVE SumAmount(_)
SumAmount(rows) ==
    IF rows = <<>> THEN 0 ELSE rows[1].Amount + SumAmount(Tail(rows))

\* the group keys of groupby("Category"): the categories present, sorted
GroupKeys(exp) ==
    SelectSeq(CategoryOrder, LAMBDA c : \E i \in 1..Len(exp) : exp[i].Category = c)

\* mutant: .first() instead of .sum(), the first amount of each group
get_expense_summary_first(exp) ==
    LET keys == GroupKeys(exp)
    IN  [i \in 1..Len(keys) |->
            [Category |-> keys[i],
             Amount |-> SelectSeq(exp, LAMBDA r : r.Category = keys[i])[1].Amount]]

\* get_expense_summary: groupby("Category")["Amount"].sum().reset_index()
get_expense_summary(exp) ==
    LET keys == GroupKeys(exp)
    IN  [i \in 1..Len(keys) |->
            [Category |-> keys[i],
             Amount |-> SumAmount(SelectSeq(exp, LAMBDA r : r.Category = keys[i]))]]

\* mutant: the update leaves out the savings_goal key
set_retirement_plan_without_goal(plan, current_age, retirement_age, current_savings, monthly_contribution, savings_goal) ==
    [plan EXCEPT !.current_age = Some(current_age),
                 !.retirement_age = Some(retirement_age),
                 !.current_savings = Some(current_savings),
                 !.monthly_contribution = Some(monthly_contribution)]

\* set_retirement_plan: dict.update with all five keys
set_retirement_plan(plan, current_age, retirement_age, current_savings, monthly_contribution, savings_goal) ==
    [plan EXCEPT !.current_age = Some(current_age),
                 !.retirement_age = Some(retirement_age),
                 !.current_savings = Some(current_savings),
                 !.monthly_contribution = Some(monthly_contribution),
                 !.savings_goal = Some(savings_goal)]

\* "self.get_current_inflation() or 0": None and 0.0 are both falsy
OrZero(value) == IF value = None THEN 0 ELSE IF value[1] = 0 THEN 0 ELSE value[1]

\* mutant: the "1 +" is missing, savings_goal * ((inflation_rate / 100) ** years)
AdjustedGoalWithoutOne(savings_goal, inflation_rate, years_to_retirement) ==
    RatMul(Rat(savings_goal, 1),
           RatPow(RatDiv(Rat(inflation_rate, 1), Rat(100, 1)), years_to_retirement))

\* mutant: the rate is subtracted, savings_goal * ((1 - inflation_rate / 100) ** years)
AdjustedGoalMinus(savings_goal, inflation_rate, years_to_retirement) ==
    RatMul(Rat(savings_goal, 1),
           RatPow(RatAdd(Rat(1, 1), RatDiv(Rat(0 - inflation_rate, 1), Rat(100, 1))),
                  years_to_retirement))

\* savings_goal * ((1 + inflation_rate / 100) ** years_to_retirement)
AdjustedGoal(savings_goal, inflation_rate, years_to_retirement) ==
    RatMul(Rat(savings_goal, 1),
           RatPow(RatAdd(Rat(1, 1), RatDiv(Rat(inflation_rate, 1), Rat(100, 1))),
                  years_to_retirement))

\* project_retirement_savings: the inflation fetch comes first; None - None
\* (or None * float) raises TypeError, which nothing catches
project_retirement_savings(plan, resp) ==
    LET inf == get_current_inflation(resp)
        inflation_rate == OrZero(inf.value)
    IN  IF plan.retirement_age = None \/ plan.current_age = None
           \/ plan.savings_goal = None
        THEN Outcome(Raised("TypeError"), inf.calls, inf.notices)
        ELSE LET years_to_retirement == plan.retirement_age[1] - plan.current_age[1]
             IN  Outcome(
                     Returned([inflation_rate |-> inflation_rate,
                               adjusted_goal |->
                                   AdjustedGoal(plan.savings_goal[1], inflation_rate,
                                                years_to_retirement),
                               years_to_retirement |-> years_to_retirement]),
                     inf.calls, inf.notices)

\* the watch-list hardcoded in suggest_stocks
stock_tickers == <<"AAPL", "MSFT", "GOOGL", "AMZN", "TSLA">>

\* the for loop of suggest_stocks from ticker i on: a truthy price adds the
\* ticker's row to stock_data, a missing price skips the ticker, an exception
\* leaves the loop (and the try block) at once
RECURSIVE StockLoop(_, _, _)
StockLoop(i, stock_data, quotes) ==
    IF i > Len(stock_tickers)
    THEN [raised |-> FALSE, stock_data |-> stock_data, fetched |-> i - 1]
    ELSE IF quotes[i] = "raises"
    THEN [raised |-> TRUE, stock_data |-> stock_data, fetched |-> i]
    ELSE IF quotes[i] = "quote"
    THEN StockLoop(i + 1, Append(stock_data, stock_tickers[i]), quotes)
    ELSE StockLoop(i + 1, stock_data, quotes)

\* mutant: the divisor is one short of the length of the watch-list
SuggestedInvestmentOneShort(investment_amount) ==
    RatDiv(Rat(investment_amount, 1), Rat(Len(stock_tickers) - 1, 1))

\* stock_df["Suggested Investment"] = investment_amount / len(stock_tickers)
SuggestedInvestment(investment_amount) ==
    RatDiv(Rat(investment_amount, 1), Rat(Len(stock_tickers), 1))

\* suggest_stocks: the DataFrame of the tickers that had a price, in watch-list
\* order, each with the same Suggested Investment; None and an st.error
\* notice when anything inside the try block raised.  years is not used.
suggest_stocks(investment_amount, years, quotes) ==
    LET loop == StockLoop(1, <<>>, quotes)
        requests == [i \in 1..loop.fetched |-> QuoteCall(stock_tickers[i])]
    IN  IF loop.raised
        THEN Outcome(Returned(None), requests, <<"Error fetching stock data">>)
        ELSE Outcome(
                 Returned(Some([i \in 1..Len(loop.stock_data) |->
                     [Ticker |-> loop.stock_data[i],
                      SuggestedInvestment |-> SuggestedInvestment(investment_amount)]])),
                 requests, <<>>)

\* f"{inflation_rate:.2f}" of a whole-percent rate: the integer part and two
\* zero decimals
Format2f(rate) == <<rate, 0, 0>>

\* mutant: "if inflation_rate:" instead of "is not None", a rate of 0 counts
\* as missing
InflationContextTruthy(value) ==
    IF value # None /\ value[1] # 0
    THEN <<"The current annual inflation rate is ", Format2f(value[1]),
           "%. Please consider this in your calculations.">>
    ELSE <<"I couldn't retrieve the current inflation rate. Proceed without inflation adjustment.">>

\* the assistant message of generate_financial_advice; "is not None", so a
\* fetched rate of 0 is reported as a rate
InflationContext(value) ==
    IF value # None
    THEN <<"The current annual inflation rate is ", Format2f(value[1]),
           "%. Please consider this in your calculations.">>
    ELSE <<"I couldn't retrieve the current inflation rate. Proceed without inflation adjustment.">>

ChatMessages(inflation_context, prompt) ==
    << [role |-> "system", content |-> <<"You are a financial advisor bot.">>],
       [role |-> "assistant", content |-> inflation_context],
       [role |-> "user", content |-> <<prompt>>] >>

\* mutant: the completion call is wrapped in try/except and a failure returns
\* an apology text
generate_financial_advice_fallback(prompt, inflation_resp, advisor_resp) ==
    LET inf == get_current_inflation(inflation_resp)
        requests ==
            inf.calls \o <<AdvisorCall(ChatMessages(InflationContext(inf.value), prompt))>>
    IN  IF advisor_resp.kind = "reply"
        THEN Outcome(Returned(advisor_resp.text), requests, inf.notices)
        ELSE Outcome(Returned("Sorry, no advice is available."), requests, inf.notices)

\* generate_financial_advice: the inflation fetch, then one chat completion;
\* an exception of the completion call is not caught here
generate_financial_advice(prompt, inflation_resp, advisor_resp) ==
    LET inf == get_current_inflation(inflation_resp)
        requests ==
            inf.calls \o <<AdvisorCall(ChatMessages(InflationContext(inf.value), prompt))>>
    IN  IF advisor_resp.kind = "reply"
        THEN Outcome(Returned(advisor_resp.text), requests, inf.notices)
        ELSE Outcome(Raised("OpenAIError"), requests, inf.notices)

----------------------------------------------------------------------------
(* The state machine *)

Init ==
    /\ expenses = InitExpenses
    /\ retirement_plan = InitPlan
    /\ adds = <<>>
    /\ op = "__init__"
    /\ args = <<>>
    /\ env = NoEnv
    /\ ret = Returned(None)
    /\ calls = <<>>
    /\ notices = <<>>

\* what every call leaves behind for the observer
Observe(name, a, e, outcome) ==
    /\ op' = name
    /\ args' = a
    /\ env' = e
    /\ ret' = outcome.ret
    /\ calls' = outcome.calls
    /\ notices' = outcome.notices

\* line 127, "bot = FinancialAdvisorBot()": Streamlit executes the script from
\* its first line on every interaction of the session, so each script run
\* binds bot to a newly constructed object
ScriptRun ==
    /\ expenses' = InitExpenses
    /\ retirement_plan' = InitPlan
    /\ adds' = <<>>
    /\ Observe("__init__", <<>>, NoEnv, Outcome(Returned(None), <<>>, <<>>))

AddExpense ==
    \E date \in Dates, category \in Categories, amount \in Amounts :
        /\ Len(expenses) < MaxLedger
        /\ expenses' = add_expense(expenses, date, category, amount)
        /\ adds' = Append(adds, <<date, category, amount>>)
        /\ Observe("add_expense", <<date, category, amount>>, NoEnv,
                   Outcome(Returned(None), <<>>, <<>>))
        /\ UNCHANGED retirement_plan

GetExpenseSummary ==
    /\ Observe("get_expense_summary", <<>>, NoEnv,
               Outcome(Returned(get_expense_summary(expenses)), <<>>, <<>>))
    /\ UNCHANGED <<expenses, retirement_plan, adds>>

SetRetirementPlan ==
    \E p \in PlanInputs :
        /\ retirement_plan' = set_retirement_plan(retirement_plan, p[1], p[2], p[3], p[4], p[5])
        /\ Observe("set_retirement_plan", p, NoEnv, Outcome(Returned(None), <<>>, <<>>))
        /\ UNCHANGED <<expenses, adds>>

ProjectRetirementSavings ==
    \E resp \in InflationResponses :
        /\ Observe("project_retirement_savings", <<>>,
                   [NoEnv EXCEPT !.inflation = resp],
                   project_retirement_savings(retirement_plan, resp))
        /\ UNCHANGED <<expenses, retirement_plan, adds>>

\* every way the five quote fetches can turn out
AllQuotes == [1..Len(stock_tickers) -> QuoteKinds]

\* four of them: all resolve, none has a price, one has no price, one raises
SampleQuotes ==
    { [i \in 1..Len(stock_tickers) |-> "quote"],
      [i \in 1..Len(stock_tickers) |-> "noprice"],
      [i \in 1..Len(stock_tickers) |-> IF i = 2 THEN "noprice" ELSE "quote"],
      [i \in 1..Len(stock_tickers) |-> IF i = 3 THEN "raises" ELSE "quote"] }

SuggestStocks(Q) ==
    \E investment_amount \in InvestmentAmounts, years \in Years, quotes \in Q :
        /\ Observe("suggest_stocks", <<investment_amount, years>>,
                   [NoEnv EXCEPT !.quotes = quotes],
                   suggest_stocks(investment_amount, years, quotes))
        /\ UNCHANGED <<expenses, retirement_plan, adds>>

SuggestStocksSample == SuggestStocks(SampleQuotes)
SuggestStocksAny == SuggestStocks(AllQuotes)

GenerateFinancialAdvice ==
    \E prompt \in Prompts, inflation_resp \in InflationResponses,
       advisor_resp \in AdvisorResponses :
        /\ Observe("generate_financial_advice", <<prompt>>,
                   [NoEnv EXCEPT !.inflation = inflation_resp, !.advisor = advisor_resp],
                   generate_financial_advice(prompt, inflation_resp, advisor_resp))
        /\ UNCHANGED <<expenses, retirement_plan, adds>>

\* the bot driven through its methods, in any order, within one session
Next ==
    \/ ScriptRun
    \/ AddExpense
    \/ GetExpenseSummary
    \/ SetRetirementPlan
    \/ ProjectRetirementSavings
    \/ SuggestStocksSample
    \/ GenerateFinancialAdvice

Spec == Init /\ [][Next]_vars

\* suggest_stocks alone, over every outcome of the five quote fetches
NextStocks == SuggestStocksAny \/ ScriptRun

SpecStocks == Init /\ [][NextStocks]_vars

----------------------------------------------------------------------------
(* Properties *)

PlanKeys == {"current_age", "retirement_age", "current_savings", "monthly_contribution", "savings_goal"}
PlanUnset(plan) == \A k \in PlanKeys : plan[k] = None
PlanSet(plan) == \A k \in PlanKeys : plan[k] # None

\* the categories of the add_expense calls made so far, and their amounts
AddedCategories == {adds[i][2] : i \in 1..Len(adds)}
RECURSIVE AddedTotal(_, _)
AddedTotal(n, S) ==
    IF n = 0 THEN 0
    ELSE (IF adds[n][2] \in S THEN adds[n][3] ELSE 0) + AddedTotal(n - 1, S)
RECURSIVE RowsTotal(_, _)
RowsTotal(rows, n) == IF n = 0 THEN 0 ELSE rows[n].Amount + RowsTotal(rows, n - 1)

\* C1: after any sequence of add_expense calls on a new bot, the summary has
\* exactly one row per category added, the row's amount is the sum of the
\* amounts added under that category, the rows' amounts add up to the sum of
\* all amounts added, and with nothing added the summary is returned empty.
C1_SummaryTotals ==
    op = "get_expense_summary" =>
        /\ ret.kind = "returned"
        /\ \A c \in AddedCategories :
               Cardinality({i \in 1..Len(ret.value) : ret.value[i].Category = c}) = 1
        /\ \A i \in 1..Len(ret.value) :
               /\ ret.value[i].Category \in AddedCategories
               /\ ret.value[i].Amount = AddedTotal(Len(adds), {ret.value[i].Category})
        /\ RowsTotal(ret.value, Len(ret.value)) = AddedTotal(Len(adds), AddedCategories)
        /\ (adds = <<>> => ret.value = <<>>)

C1_Witness ==
    /\ op = "get_expense_summary"
    /\ Len(adds) = 3
    /\ adds[1][2] = adds[2][2] /\ adds[3][2] # adds[1][2]
    /\ adds[1][3] > 0 /\ adds[2][3] > 0 /\ adds[3][3] > 0

\* C2: project_retirement_savings called while the plan is unset ends in an
\* explicit PlanIncomplete error and leaves ledger and plan as they were.
C2_PlanIncomplete ==
    (op = "project_retirement_savings" /\ PlanUnset(retirement_plan)) =>
        ret = Raised("PlanIncomplete")

\* C3: when the chat completion fails, generate_financial_advice ends in the
\* gateway's error reaching the caller, whatever the inflation fetch did, and
\* the ledger and the plan are the same after the call as before it.
C3_AdvisorUnavailable ==
    [][(op' = "generate_financial_advice" /\ env'.advisor.kind = "error") =>
           /\ ret' = Raised("OpenAIError")
           /\ expenses' = expenses
           /\ retirement_plan' = retirement_plan]_vars

C3_Witness ==
    /\ op = "generate_financial_advice"
    /\ env.advisor.kind = "error"
    /\ env.inflation.kind = "exception"
    /\ ret.kind = "raised"
    /\ expenses # <<>>
    /\ PlanSet(retirement_plan)

RECURSIVE SuggestedTotal(_, _)
SuggestedTotal(rows, n) ==
    IF n = 0 THEN Rat(0, 1)
    ELSE RatAdd(rows[n].SuggestedInvestment, SuggestedTotal(rows, n - 1))

AllResolve == \A i \in 1..Len(stock_tickers) : env.quotes[i] = "quote"

\* C4: when every ticker of the watch-list has a quote, suggest_stocks returns
\* one row per ticker, each Suggested Investment times the number of tickers
\* is the investment amount, and the Suggested Investments add up to it.
C4_EvenSplit ==
    (op = "suggest_stocks" /\ AllResolve) =>
        /\ ret.value # None
        /\ LET rows == ret.value[1]
           IN  /\ Len(rows) = Len(stock_tickers)
               /\ \A i \in 1..Len(rows) :
                      /\ rows[i].Ticker = stock_tickers[i]
                      /\ rows[i].SuggestedInvestment.den # 0
                      /\ rows[i].SuggestedInvestment.num * Len(stock_tickers)
                             = args[1] * rows[i].SuggestedInvestment.den
               /\ RatEq(SuggestedTotal(rows, Len(rows)), Rat(args[1], 1))

C4_Witness ==
    /\ op = "suggest_stocks"
    /\ AllResolve
    /\ args[1] = 7
    /\ ret.value # None
    /\ Len(ret.value[1]) = 5

\* C5: with the plan set, whenever the rate used is 0 (the gateway reported 0,
\* or the fetch failed and 0 was substituted) project_retirement_savings
\* returns a result whose inflation_rate is 0 and whose adjusted_goal equals
\* savings_goal, for positive, zero and negative years_to_retirement.
C5_ZeroRateKeepsGoal ==
    (/\ op = "project_retirement_savings"
     /\ PlanSet(retirement_plan)
     /\ (env.inflation.kind # "rate" \/ env.inflation.value = 0)) =>
        /\ ret.kind = "returned"
        /\ ret.value.inflation_rate = 0
        /\ ret.value.years_to_retirement
               = retirement_plan.retirement_age[1] - retirement_plan.current_age[1]
        /\ ret.value.adjusted_goal.den # 0
        /\ ret.value.adjusted_goal.num
               = retirement_plan.savings_goal[1] * ret.value.adjusted_goal.den

C5_Witness ==
    /\ op = "project_retirement_savings"
    /\ PlanSet(retirement_plan)
    /\ env.inflation.kind = "exception"
    /\ ret.kind = "returned"
    /\ ret.value.years_to_retirement < 0
    /\ retirement_plan.savings_goal[1] > 0

\* the adjusted goal the same plan gets under the rate r
GoalUnderRate(r) ==
    AdjustedGoal(retirement_plan.savings_goal[1], r, ret.value.years_to_retirement)

Projected ==
    /\ op = "project_retirement_savings"
    /\ ret.kind = "returned"
    /\ ret.value.years_to_retirement > 0

\* C6 as stated: for a plan with years_to_retirement > 0 the adjusted goal
\* under a larger non-negative rate is greater, savings_goal = 0 included.
C6_StrictlyIncreasing ==
    Projected =>
        \A r2 \in Rates :
            r2 > ret.value.inflation_rate =>
                RatLess(ret.value.adjusted_goal, GoalUnderRate(r2))

\* C6 as amended: for a plan with years_to_retirement > 0 the adjusted goal
\* under a larger non-negative rate is greater when savings_goal > 0, and is
\* the same (0) under every rate when savings_goal = 0.
C6_IncreasingForPositiveGoal ==
    Projected =>
        \A r2 \in Rates :
            r2 > ret.value.inflation_rate =>
                IF retirement_plan.savings_goal[1] > 0
                THEN RatLess(ret.value.adjusted_goal, GoalUnderRate(r2))
                ELSE /\ ret.value.adjusted_goal.num = 0
                     /\ GoalUnderRate(r2).num = 0

C6_Witness ==
    /\ Projected
    /\ retirement_plan.savings_goal[1] > 0
    /\ ret.value.inflation_rate = 3
    /\ ret.value.years_to_retirement = 2

AllOrNone(plan) == PlanUnset(plan) \/ PlanSet(plan)

\* C7: set_retirement_plan stores each of its five arguments whatever the
\* plan was before, leaves the ledger unchanged, and in every state the five
\* plan fields are all unset or all set.
C7_SetPlanReplaces ==
    /\ AllOrNone(retirement_plan)
    /\ [][/\ AllOrNone(retirement_plan')
          /\ op' = "set_retirement_plan" =>
                /\ retirement_plan' =
                       [current_age |-> <<args'[1]>>, retirement_age |-> <<args'[2]>>,
                        current_savings |-> <<args'[3]>>,
                        monthly_contribution |-> <<args'[4]>>,
                        savings_goal |-> <<args'[5]>>]
                /\ expenses' = expenses]_vars

C7_Witness ==
    /\ op = "set_retirement_plan"
    /\ args = <<2, 0, 1000, 100, 5>>
    /\ retirement_plan.current_savings = <<1000>>
    /\ Len(expenses) = 2

\* the rows the claim expects: the tickers whose fetch gave a quote
RECURSIVE ResolvedFrom(_)
ResolvedFrom(i) ==
    IF i > Len(stock_tickers) THEN <<>>
    ELSE (IF env.quotes[i] = "quote" THEN <<stock_tickers[i]>> ELSE <<>>)
             \o ResolvedFrom(i + 1)

\* C8: whichever tickers have no quote or fail to fetch, suggest_stocks
\* returns exactly the rows of the other tickers, in watch-list order, each
\* with investment_amount / 5; with no ticker resolving the result is empty.
C8_DropsOnlyFailed ==
    op = "suggest_stocks" =>
        /\ ret.value # None
        /\ LET rows == ret.value[1]
               kept == ResolvedFrom(1)
           IN  /\ Len(rows) = Len(kept)
               /\ \A i \in 1..Len(rows) :
                      /\ rows[i].Ticker = kept[i]
                      /\ RatEq(rows[i].SuggestedInvestment, Rat(args[1], Len(stock_tickers)))

\* C9: generate_financial_advice makes exactly one inflation request and then
\* exactly one chat completion request, also when the inflation fetch failed;
\* the messages are system persona, assistant inflation context (the rate, or
\* the fallback text) and the user's prompt; a reply is returned unmodified.
C9_AskChain ==
    op = "generate_financial_advice" =>
        /\ Len(calls) = 2
        /\ calls[1].gateway = "InflationGateway"
        /\ calls[2].gateway = "AdvisorGateway"
        /\ LET m == calls[2].request
           IN  /\ Len(m) = 3
               /\ m[1].role = "system" /\ m[2].role = "assistant" /\ m[3].role = "user"
               /\ m[3].content = <<args[1]>>
               /\ IF env.inflation.kind = "rate"
                  THEN /\ Len(m[2].content) = 3
                       /\ m[2].content[2] = <<env.inflation.value, 0, 0>>
                  ELSE Len(m[2].content) = 1
        /\ env.advisor.kind = "reply" => ret = Returned(env.advisor.text)

C9_Witness ==
    /\ op = "generate_financial_advice"
    /\ env.inflation.kind = "nodata"
    /\ env.advisor.kind = "reply"
    /\ ret = Returned("save more")
    /\ Len(calls) = 2

\* C10: add_expense puts one record last and keeps the earlier ones, no other
\* operation changes the ledger, and a record once added stays in place,
\* unaltered, in every later state of the session.
C10_AppendOnly ==
    [][/\ Len(expenses') >= Len(expenses)
       /\ SubSeq(expenses', 1, Len(expenses)) = expenses
       /\ op' = "add_expense" =>
             expenses' = Append(expenses,
                 [Date |-> args'[1], Category |-> args'[2], Amount |-> args'[3]])
       /\ op' \in {"get_expense_summary", "set_retirement_plan",
                   "project_retirement_savings", "suggest_stocks",
                   "generate_financial_advice"} => expenses' = expenses]_vars

====
